---- MODULE Spec2Model ----
(***************************************************************************)
(* Persistent memory engine of Docy_Search: the memories table, the        *)
(* blocking store/facade (SQLiteMemory, MemoryManager) and the             *)
(* non-blocking store/facade (AsyncSQLiteMemory, AsyncMemoryManager) of    *)
(* src/memory, both opened on the same database file.                      *)
(*                                                                         *)
(* Time is counted in whole days: CURRENT_TIMESTAMP values taken at the    *)
(* same clock value are equal, as two SQLite timestamps taken within the   *)
(* same second are.                                                        *)
(***************************************************************************)
EXTENDS Integers, Sequences, FiniteSets, TLC

VARIABLES
    memories,      \* the memories table: id -> row
    next_id,       \* AUTOINCREMENT sequence of the table
    now,           \* wall clock seen by CURRENT_TIMESTAMP / datetime('now')
    ret,           \* the last operation: what it returned to its caller (and, for retrieve, its arguments)
    issued,        \* history: ids handed out by save and not cleared since
    archive_log,   \* history: id -> number of archive calls that counted it
    shadow,        \* a second database file, driven through the blocking form only
    tasks,         \* the coroutines handed to an event loop with create_task
    loop,          \* the event loop of the calling thread: "none", "idle" or "running"
    coros,         \* calls of the non-blocking form in flight, each at an await
    tracker        \* the ActivityTracker instance: _activity_id, current_activity, activity_log

vars == <<memories, next_id, now, ret, issued, archive_log, shadow, tasks, loop, coros, tracker>>

\* the calls in flight and the progress observer
conc == <<coros, tracker>>

\* what the operations on the first database leave alone
aux == <<shadow, tasks, loop, conc>>

----------------------------------------------------------------------------
\* Bounds of the model
MaxSaves == 2
MaxScenarioSaves == 3
MaxScenarioAccess == 1
MaxTasks == 2
MaxClock == 92
MaxAccess == 2
LongLen == 501
MaxCalls == 3

\* Inputs
Users == {"u1", "u2"}
Categories == {"a", "b"}
NoCategory == ""
Limits == {1, 10}
ClockSteps == {46}

\* Program constants
CompressPrefixLen == 500
CompressDays == 30
CompressAccessCeiling == 5
ArchiveDays == 90
ArchiveAccessCeiling == 2
FindSimilarFetch == 100
MaxRetries == 3
NullTime == -1

Marker == <<".", ".", ".", "[", "c", "o", "m", "p", "r", "e", "s", "s", "e", "d", "]">>

ShortContent == <<"h", "i">>
LongContent == [i \in 1..LongLen |-> "x"]

NoEmbedding == <<>>

\* The save requests the callers issue: the arguments of save_memory and the
\* vector the embedding provider answers with (none when it is not configured
\* or fails).
SaveRequests ==
    { [user_id |-> "u1", content |-> LongContent,  category |-> "a", embedding |-> NoEmbedding],
      [user_id |-> "u1", content |-> ShortContent, category |-> "b", embedding |-> <<1, 0>>],
      [user_id |-> "u2", content |-> ShortContent, category |-> "a", embedding |-> <<1, 1>>] }

\* The save requests of the retrieve scenarios
ScenarioRequests ==
    { [user_id |-> "u1", content |-> ShortContent, category |-> "a", embedding |-> NoEmbedding],
      [user_id |-> "u1", content |-> ShortContent, category |-> "b", embedding |-> NoEmbedding],
      [user_id |-> "u2", content |-> ShortContent, category |-> "a", embedding |-> NoEmbedding] }

\* What the embedding provider answers to the successive requests of one
\* save: here it answers every request of a save alike
ProviderResponses ==
    { <<"ok", "ok", "ok">>, <<"fail", "fail", "fail">> }

\* Query vectors and thresholds (numerator, denominator) of find_similar
QueryVectors == {<<1, 0>>, <<0, 1>>}
Thresholds == {<<7, 10>>}

Min(a, b) == IF a < b THEN a ELSE b

Ids == DOMAIN memories

----------------------------------------------------------------------------
\* json.dumps(v) if v else None  /  json.loads(text)
NullText == <<>>
JsonDumps(v) == IF v = <<>> THEN NullText ELSE <<"json", v>>
JsonLoads(t) == IF t = NullText THEN <<>> ELSE t[2]

\* text json.loads raises JSONDecodeError on; the columns are plain TEXT
BadText == <<"text", "{">>
JsonValid(t) == t = NullText \/ t[1] = "json"

\* INSERT INTO memories (user_id, content, embedding, metadata, category):
\* the remaining columns take their schema defaults.
InsertRow(id, user_id, content, embedding, metadata, category, t) ==
    [id |-> id,
     user_id |-> user_id,
     content |-> content,
     embedding |-> JsonDumps(embedding),
     timestamp |-> t,
     metadata |-> JsonDumps(metadata),
     category |-> category,
     compressed |-> FALSE,
     archived |-> FALSE,
     access_count |-> 0,
     last_accessed |-> NullTime]

\* metadata['created_at'] = datetime.now().isoformat()
StampMetadata(t) == <<"created_at", t>>

Extend(f, id, row) == [i \in DOMAIN f \cup {id} |-> IF i = id THEN row ELSE f[i]]


Range(s) == {s[i] : i \in DOMAIN s}

\* "\n".join(lines)
RECURSIVE JoinLines(_)
JoinLines(lines) ==
    IF lines = <<>> THEN <<>>
    ELSE IF Len(lines) = 1 THEN lines[1]
    ELSE lines[1] \o <<"\n">> \o JoinLines(Tail(lines))

Sentinel == <<"N", "o", " ", "p", "r", "e", "v", "i", "o", "u", "s", " ", "i", "n", "t", "e", "r", "a", "c", "t", "i", "o", "n", "s", " ", "f", "o", "u", "n", "d", ".">>

----------------------------------------------------------------------------
\* Record Store: the WHERE clause of get_memories
CategoryFilter(row, category) == category # NoCategory => row.category = category

\* SQLiteMemory.get_memories: WHERE user_id = ? [AND category = ?]
SyncWhere(row, user_id, category) ==
    /\ row.user_id = user_id
    /\ CategoryFilter(row, category)

\* Faulty variant: the category filter is not appended to the query
AsyncWhere_NoCategory(row, user_id, category) ==
    /\ row.user_id = user_id
    /\ row.archived = FALSE

\* AsyncSQLiteMemory.get_memories: WHERE user_id = ? AND archived = FALSE [AND category = ?]
AsyncWhere(row, user_id, category) ==
    /\ row.user_id = user_id
    /\ row.archived = FALSE
    /\ CategoryFilter(row, category)

\* ORDER BY timestamp DESC LIMIT ?  over the ids M of table mem: the order of
\* rows with equal timestamps is not fixed by the query.
OrderByTimestampDescLimit(mem, M, limit) ==
    LET k == Min(limit, Cardinality(M)) IN
    { s \in [1..k -> M] :
        /\ \A i, j \in 1..k : i < j =>
              /\ s[i] # s[j]
              /\ mem[s[i]].timestamp >= mem[s[j]].timestamp
        /\ \A m \in M \ Range(s) : \A i \in 1..k :
              mem[s[i]].timestamp >= mem[m].timestamp }

\* the rows the SELECT of SQLiteMemory.get_memories may fetch, as ids in order
SyncSelect(mem, user_id, limit, category) ==
    OrderByTimestampDescLimit(mem,
        {i \in DOMAIN mem : SyncWhere(mem[i], user_id, category)}, limit)

\* the rows the SELECT of AsyncSQLiteMemory.get_memories may fetch
AsyncSelect(mem, user_id, limit, category) ==
    OrderByTimestampDescLimit(mem,
        {i \in DOMAIN mem : AsyncWhere(mem[i], user_id, category)}, limit)

\* SQLiteMemory.get_memories parses without a handler: json.loads raises on
\* a row that is not readable
Readable(row) == JsonValid(row.embedding) /\ JsonValid(row.metadata)

\* dict(row) with the JSON columns parsed; AsyncSQLiteMemory.get_memories
\* replaces what does not parse: embedding None, metadata {}
ParseRow(row) ==
    [row EXCEPT !.embedding = IF JsonValid(@) THEN JsonLoads(@) ELSE <<>>,
                !.metadata = IF JsonValid(@) THEN JsonLoads(@) ELSE <<>>]

\* Faulty variant: the counter is decremented
TouchRow_Decrement(row, t) ==
    [row EXCEPT !.access_count = @ - 1, !.last_accessed = t]

\* UPDATE memories SET access_count = access_count + 1,
\*        last_accessed = CURRENT_TIMESTAMP WHERE id IN (...)
TouchRow(row, t) ==
    [row EXCEPT !.access_count = @ + 1, !.last_accessed = t]

\* the list of dicts get_memories builds from the fetched rows
RowsOf(mem, sel) == [k \in 1..Len(sel) |-> ParseRow(mem[sel[k]])]

TrackAccess(mem, ids, t) ==
    [i \in DOMAIN mem |-> IF i \in ids THEN TouchRow(mem[i], t) ELSE mem[i]]

\* f"[{timestamp}] {content}"
FormatMemory(row) == <<"[", ToString(row.timestamp), "]", " ">> \o row.content

\* retrieve_memories: the formatting of the rows the store returned
FormatMemories(rows) ==
    IF rows = <<>> THEN Sentinel
    ELSE JoinLines([i \in 1..Len(rows) |-> FormatMemory(rows[i])])

\* ActivityTracker.__init__: no activity yet (current_activity None is 0)
NoTracker == [activity_id |-> 0, current |-> 0, log |-> <<>>]

----------------------------------------------------------------------------
Init ==
    /\ memories = <<>>
    /\ next_id = 1
    /\ now = 0
    /\ ret = [op |-> "init"]
    /\ issued = {}
    /\ archive_log = [i \in 1..(MaxSaves + MaxScenarioSaves) |-> 0]
    /\ shadow = [memories |-> <<>>, next_id |-> 1, ret |-> [op |-> "init"]]
    /\ tasks = {}
    /\ loop = "idle"
    /\ coros = <<>>
    /\ tracker = NoTracker

\* INSERT ... ; conn.commit(); cursor.lastrowid  (save_memory of either store)
InsertMemory(req) ==
    /\ memories' = Extend(memories, next_id,
                          InsertRow(next_id, req.user_id, req.content, req.embedding,
                                    StampMetadata(now), req.category, now))
    /\ next_id' = next_id + 1
    /\ issued' = issued \cup {[id |-> next_id, user_id |-> req.user_id, timestamp |-> now]}
    /\ UNCHANGED <<now, archive_log>>

StoreSaveMemory(req) ==
    /\ InsertMemory(req)
    /\ UNCHANGED aux

\* MemoryManager.save_memory -> SQLiteMemory.save_memory
SaveMemory(req) ==
    /\ StoreSaveMemory(req)
    /\ ret' = [op |-> "save", form |-> "blocking", id |-> next_id,
               user_id |-> req.user_id, length |-> Len(req.content)]

\* AsyncMemoryManager.save_memory -> AsyncSQLiteMemory.save_memory, awaited
AsyncSaveMemory(req) ==
    /\ StoreSaveMemory(req)
    /\ ret' = [op |-> "save", form |-> "async", id |-> next_id,
               user_id |-> req.user_id, length |-> Len(req.content)]

\* Every access counter is below the cap (keeps the counters finite)
CanTouch(cap) == \A i \in Ids : memories[i].access_count < cap

\* MemoryManager.retrieve_memories -> SQLiteMemory.get_memories
RetrieveMemories(user_id, limit, category) ==
    \E sel \in SyncSelect(memories, user_id, limit, category) :
       /\ IF \A k \in 1..Len(sel) : Readable(memories[sel[k]])
          THEN LET rows == RowsOf(memories, sel) IN
               ret' = [op |-> "retrieve", form |-> "blocking",
                       args |-> <<user_id, limit, category>>, rows |-> rows,
                       text |-> FormatMemories(rows)]
          ELSE ret' = [op |-> "retrieve", form |-> "blocking",
                       args |-> <<user_id, limit, category>>, rows |-> <<>>,
                       text |-> <<>>, raised |-> "JSONDecodeError"]
       /\ UNCHANGED <<memories, next_id, now, issued, archive_log, aux>>

\* AsyncMemoryManager.retrieve_memories -> AsyncSQLiteMemory.get_memories
AsyncRetrieveMemories(user_id, limit, category) ==
    \E sel \in AsyncSelect(memories, user_id, limit, category) :
       LET rows == RowsOf(memories, sel) IN
       /\ memories' = TrackAccess(memories, Range(sel), now)
       /\ ret' = [op |-> "retrieve", form |-> "async",
                  args |-> <<user_id, limit, category>>, rows |-> rows,
                  text |-> FormatMemories(rows)]
       /\ UNCHANGED <<next_id, now, issued, archive_log, aux>>

\* Faulty variant: the DELETE spares the archived rows
DeleteUser_KeepArchived(mem, user_id) ==
    [i \in {j \in DOMAIN mem : mem[j].user_id # user_id \/ mem[j].archived} |-> mem[i]]

\* Faulty variant: the DELETE has no WHERE clause
DeleteUser_Everyone(mem, user_id) ==
    [i \in {j \in DOMAIN mem : FALSE} |-> mem[i]]

\* DELETE FROM memories WHERE user_id = ?
DeleteUser(mem, user_id) ==
    [i \in {j \in DOMAIN mem : mem[j].user_id # user_id} |-> mem[i]]

StoreClearUserMemories(user_id) ==
    /\ memories' = DeleteUser(memories, user_id)
    /\ issued' = {h \in issued : h.user_id # user_id}
    /\ UNCHANGED <<next_id, now, archive_log, aux>>

\* MemoryManager.clear_user_memories -> SQLiteMemory.clear_user_memories
ClearUserMemories(user_id) ==
    /\ StoreClearUserMemories(user_id)
    /\ ret' = [op |-> "clear", form |-> "blocking", user_id |-> user_id,
               count |-> Cardinality({i \in Ids : memories[i].user_id = user_id})]

\* AsyncMemoryManager.clear_user_memories -> AsyncSQLiteMemory.clear_user_memories
AsyncClearUserMemories(user_id) ==
    /\ StoreClearUserMemories(user_id)
    /\ ret' = [op |-> "clear", form |-> "async", user_id |-> user_id,
               count |-> Cardinality({i \in Ids : memories[i].user_id = user_id})]

\* Faulty variant: the marker is appended without cutting the content
CompressContent_NoSubstr(content) == content \o Marker

\* substr(content, 1, 500) || '...[compressed]'
CompressContent(content) ==
    SubSeq(content, 1, Min(Len(content), CompressPrefixLen)) \o Marker

\* Faulty variant: the UPDATE does not exclude rows that are compressed already
CompressWhere_NoFlag(row, t, days_threshold) ==
    /\ t - days_threshold > row.timestamp
    /\ row.access_count < CompressAccessCeiling

\* Faulty variant: the UPDATE passes over the rows that were retrieved once
CompressWhere_NeverRead(row, t, days_threshold) ==
    /\ row.compressed = FALSE
    /\ t - days_threshold > row.timestamp
    /\ row.access_count < 1

\* WHERE compressed = FALSE AND datetime('now', '-N days') > timestamp AND access_count < 5
CompressWhere(row, t, days_threshold) ==
    /\ row.compressed = FALSE
    /\ t - days_threshold > row.timestamp
    /\ row.access_count < CompressAccessCeiling

\* Faulty variant: the UPDATE also rewrites the rows it does not match
CompressOldMemories_AllRows(mem, t, days_threshold) ==
    [i \in DOMAIN mem |->
        [mem[i] EXCEPT !.compressed = TRUE, !.content = CompressContent(@)]]

\* AsyncSQLiteMemory.compress_old_memories
CompressOldMemories(mem, t, days_threshold) ==
    [i \in DOMAIN mem |->
        IF CompressWhere(mem[i], t, days_threshold)
        THEN [mem[i] EXCEPT !.compressed = TRUE, !.content = CompressContent(@)]
        ELSE mem[i]]

\* Faulty variant: the UPDATE does not exclude rows that are archived already
ArchiveWhere_NoFlag(row, t, days_threshold) ==
    /\ t - days_threshold > row.timestamp
    /\ row.access_count < ArchiveAccessCeiling

\* Faulty variant: the UPDATE does not look at access_count
ArchiveWhere_NoAccess(row, t, days_threshold) ==
    /\ row.archived = FALSE
    /\ t - days_threshold > row.timestamp

\* WHERE archived = FALSE AND datetime('now', '-N days') > timestamp AND access_count < 2
ArchiveWhere(row, t, days_threshold) ==
    /\ row.archived = FALSE
    /\ t - days_threshold > row.timestamp
    /\ row.access_count < ArchiveAccessCeiling

\* Faulty variant: archival deletes the rows instead of flagging them
ArchiveOldMemories_Delete(mem, t, days_threshold) ==
    [i \in {j \in DOMAIN mem : ~(/\ mem[j].archived = FALSE
                                 /\ t - days_threshold > mem[j].timestamp
                                 /\ mem[j].access_count < ArchiveAccessCeiling)} |-> mem[i]]

\* AsyncSQLiteMemory.archive_old_memories
ArchiveOldMemories(mem, t, days_threshold) ==
    [i \in DOMAIN mem |->
        IF ArchiveWhere(mem[i], t, days_threshold)
        THEN [mem[i] EXCEPT !.archived = TRUE]
        ELSE mem[i]]

\* AsyncMemoryManager.perform_memory_maintenance: compress, then archive
PerformMemoryMaintenance ==
    LET afterCompress == CompressOldMemories(memories, now, CompressDays)
        nCompressed == Cardinality({i \in Ids : CompressWhere(memories[i], now, CompressDays)})
        counted == {i \in Ids : ArchiveWhere(afterCompress[i], now, ArchiveDays)}
    IN
    /\ memories' = ArchiveOldMemories(afterCompress, now, ArchiveDays)
    /\ archive_log' = [i \in DOMAIN archive_log |->
                          IF i \in counted THEN archive_log[i] + 1 ELSE archive_log[i]]
    /\ ret' = [op |-> "maintenance", form |-> "async",
               compressed |-> nCompressed, archived |-> Cardinality(counted)]
    /\ UNCHANGED <<next_id, now, issued, aux>>

\* AsyncMemoryManager.get_user_memory_stats -> AsyncSQLiteMemory.get_memory_stats
GetUserMemoryStats(user_id) ==
    LET mine == {i \in Ids : memories[i].user_id = user_id} IN
    /\ ret' = [op |-> "stats", form |-> "async",
               total |-> Cardinality(mine),
               active |-> Cardinality({i \in mine : memories[i].archived = FALSE}),
               compressed |-> Cardinality({i \in mine : memories[i].compressed = TRUE}),
               archived |-> Cardinality({i \in mine : memories[i].archived = TRUE})]
    /\ UNCHANGED <<memories, next_id, now, issued, archive_log, aux>>

----------------------------------------------------------------------------
\* Cosine similarity, kept exact: the score dot / sqrt(nsq) is carried as the
\* pair (dot, nsq) with nsq = |a|^2 * |b|^2, and compared by cross-multiplying.
Dot(a, b) == a[1] * b[1] + a[2] * b[2]

\* calculate_similarity
CalculateSimilarity(a, b) ==
    IF a = <<>> \/ b = <<>> THEN [dot |-> 0, nsq |-> 1]
    ELSE IF Dot(a, a) = 0 \/ Dot(b, b) = 0 THEN [dot |-> 0, nsq |-> 1]
    ELSE [dot |-> Dot(a, b), nsq |-> Dot(a, a) * Dot(b, b)]

\* Faulty variant: every scored record passes
AtLeastThreshold_Always(sc, th) == TRUE

\* similarity >= threshold, threshold = th[1] / th[2] with th[2] > 0
AtLeastThreshold(sc, th) ==
    LET l == sc.dot * th[2]
        r == th[1] IN
    IF l >= 0 /\ r < 0 THEN TRUE
    ELSE IF l < 0 /\ r >= 0 THEN FALSE
    ELSE IF l >= 0 THEN l * l >= r * r * sc.nsq
    ELSE l * l <= r * r * sc.nsq

\* score of x >= score of y
ScoreGE(x, y) ==
    IF x.dot >= 0 /\ y.dot < 0 THEN TRUE
    ELSE IF x.dot < 0 /\ y.dot >= 0 THEN FALSE
    ELSE IF x.dot >= 0 THEN x.dot * x.dot * y.nsq >= y.dot * y.dot * x.nsq
    ELSE x.dot * x.dot * y.nsq <= y.dot * y.dot * x.nsq

\* list.sort(key=similarity_score, reverse=True): stable, descending
RECURSIVE SortBySimilarity(_)
SortBySimilarity(rows) ==
    IF rows = <<>> THEN <<>>
    ELSE LET rest == SortBySimilarity(SubSeq(rows, 1, Len(rows) - 1))
             x == rows[Len(rows)]
             before == SelectSeq(rest, LAMBDA y : ScoreGE(y.similarity_score, x.similarity_score))
             after == SelectSeq(rest, LAMBDA y : ~ScoreGE(y.similarity_score, x.similarity_score))
         IN before \o <<x>> \o after

\* memory['similarity_score'] = similarity
WithScore(row, sc) ==
    [f \in DOMAIN row \cup {"similarity_score"} |->
        IF f = "similarity_score" THEN sc ELSE row[f]]

\* the scoring loop, the sort and the cut of find_similar_memories
RankSimilar(all_memories, query_embedding, threshold, limit) ==
    LET scoredAll == [k \in 1..Len(all_memories) |->
                        WithScore(all_memories[k],
                             CalculateSimilarity(query_embedding, all_memories[k].embedding))]
        scored == SelectSeq(scoredAll, LAMBDA m :
                      /\ m.embedding # <<>>
                      /\ AtLeastThreshold(m.similarity_score, threshold))
        sorted == SortBySimilarity(scored)
    IN SubSeq(sorted, 1, Min(limit, Len(sorted)))

\* MemoryManager.find_similar_memories
FindSimilarMemories(user_id, query_embedding, threshold, limit) ==
    \E sel \in SyncSelect(memories, user_id, FindSimilarFetch, NoCategory) :
       /\ IF \A k \in 1..Len(sel) : Readable(memories[sel[k]])
          THEN LET rows == RowsOf(memories, sel) IN
               ret' = [op |-> "find_similar", form |-> "blocking",
                       args |-> <<user_id, query_embedding, threshold, limit>>,
                       rows |-> RankSimilar(rows, query_embedding, threshold, limit)]
          ELSE ret' = [op |-> "find_similar", form |-> "blocking",
                       args |-> <<user_id, query_embedding, threshold, limit>>,
                       rows |-> <<>>, raised |-> "JSONDecodeError"]
       /\ UNCHANGED <<memories, next_id, now, issued, archive_log, aux>>

\* AsyncMemoryManager.find_similar_memories
AsyncFindSimilarMemories(user_id, query_embedding, threshold, limit) ==
    \E sel \in AsyncSelect(memories, user_id, FindSimilarFetch, NoCategory) :
       LET rows == RowsOf(memories, sel) IN
       /\ memories' = TrackAccess(memories, Range(sel), now)
       /\ ret' = [op |-> "find_similar", form |-> "async",
                  args |-> <<user_id, query_embedding, threshold, limit>>,
                  rows |-> RankSimilar(rows, query_embedding, threshold, limit)]
       /\ UNCHANGED <<next_id, now, issued, archive_log, aux>>

\* The wall clock advances
Tick(d) ==
    /\ now + d <= MaxClock
    /\ now' = now + d
    /\ ret' = [op |-> "tick"]
    /\ UNCHANGED <<memories, next_id, issued, archive_log, aux>>

Next ==
    \/ \E req \in SaveRequests : next_id <= MaxSaves /\ SaveMemory(req)
    \/ \E req \in SaveRequests : next_id <= MaxSaves /\ AsyncSaveMemory(req)
    \/ \E u \in Users, l \in Limits, c \in Categories \cup {NoCategory} :
          RetrieveMemories(u, l, c)
    \/ \E u \in Users, l \in Limits, c \in Categories \cup {NoCategory} :
          CanTouch(MaxAccess) /\ AsyncRetrieveMemories(u, l, c)
    \/ \E u \in Users : ClearUserMemories(u)
    \/ \E u \in Users : AsyncClearUserMemories(u)
    \/ PerformMemoryMaintenance
    \/ \E u \in Users : GetUserMemoryStats(u)
    \/ \E u \in Users, q \in QueryVectors, th \in Thresholds, l \in Limits :
          FindSimilarMemories(u, q, th, l)
    \/ \E u \in Users, q \in QueryVectors, th \in Thresholds, l \in Limits :
          CanTouch(MaxAccess) /\ AsyncFindSimilarMemories(u, q, th, l)
    \/ \E d \in ClockSteps : Tick(d)

Spec == Init /\ [][Next]_vars

\* The non-blocking facade alone, on tables of up to MaxScenarioSaves records
NextRetrieve ==
    \/ \E req \in ScenarioRequests : next_id <= MaxScenarioSaves /\ AsyncSaveMemory(req)
    \/ \E u \in Users, l \in Limits, c \in Categories \cup {NoCategory} :
          CanTouch(MaxScenarioAccess) /\ AsyncRetrieveMemories(u, l, c)
    \/ PerformMemoryMaintenance
    \/ \E d \in ClockSteps : Tick(d)

SpecRetrieve == Init /\ [][NextRetrieve]_vars

----------------------------------------------------------------------------
\* The two forms side by side: the same calls are issued through the
\* non-blocking form on the first database and through the blocking form on
\* the second one (shadow), with the same provider responses.

\* MemoryManager._generate_embedding: one request, None when it fails
GenerateEmbedding(vector, responses) ==
    IF responses[1] = "ok" THEN vector ELSE NoEmbedding

\* AsyncMemoryManager._generate_embedding_with_retry: up to max_retries requests
GenerateEmbeddingWithRetry(vector, responses) ==
    IF \E k \in 1..MaxRetries : responses[k] = "ok" THEN vector ELSE NoEmbedding

EquivSave(req, responses) ==
    /\ memories' = Extend(memories, next_id,
           InsertRow(next_id, req.user_id, req.content,
                     GenerateEmbeddingWithRetry(req.embedding, responses),
                     StampMetadata(now), req.category, now))
    /\ next_id' = next_id + 1
    /\ ret' = [op |-> "save", form |-> "async", id |-> next_id]
    /\ shadow' = [memories |-> Extend(shadow.memories, shadow.next_id,
                      InsertRow(shadow.next_id, req.user_id, req.content,
                                GenerateEmbedding(req.embedding, responses),
                                StampMetadata(now), req.category, now)),
                  next_id |-> shadow.next_id + 1,
                  ret |-> [op |-> "save", form |-> "blocking", id |-> shadow.next_id]]
    /\ UNCHANGED <<now, issued, archive_log, tasks, loop, conc>>

\* both databases are read by the same engine: where the two queries select
\* the same rows, rows with equal timestamps come in the same order
EquivRetrieve(user_id, limit, category) ==
    \E sa \in AsyncSelect(memories, user_id, limit, category),
       sb \in SyncSelect(shadow.memories, user_id, limit, category) :
       /\ Range(sa) = Range(sb) => sa = sb
       /\ memories' = TrackAccess(memories, Range(sa), now)
       /\ ret' = [op |-> "retrieve", form |-> "async",
                  args |-> <<user_id, limit, category>>,
                  rows |-> RowsOf(memories, sa),
                  text |-> FormatMemories(RowsOf(memories, sa))]
       /\ shadow' = [shadow EXCEPT !.ret =
                        [op |-> "retrieve", form |-> "blocking",
                         args |-> <<user_id, limit, category>>,
                         rows |-> RowsOf(shadow.memories, sb),
                         text |-> FormatMemories(RowsOf(shadow.memories, sb))]]
       /\ UNCHANGED <<next_id, now, issued, archive_log, tasks, loop, conc>>

EquivFindSimilar(user_id, query_embedding, threshold, limit) ==
    \E sa \in AsyncSelect(memories, user_id, FindSimilarFetch, NoCategory),
       sb \in SyncSelect(shadow.memories, user_id, FindSimilarFetch, NoCategory) :
       /\ Range(sa) = Range(sb) => sa = sb
       /\ memories' = TrackAccess(memories, Range(sa), now)
       /\ ret' = [op |-> "find_similar", form |-> "async",
                  rows |-> RankSimilar(RowsOf(memories, sa),
                                       query_embedding, threshold, limit)]
       /\ shadow' = [shadow EXCEPT !.ret =
                        [op |-> "find_similar", form |-> "blocking",
                         rows |-> RankSimilar(RowsOf(shadow.memories, sb),
                                              query_embedding, threshold, limit)]]
       /\ UNCHANGED <<next_id, now, issued, archive_log, tasks, loop, conc>>

EquivClear(user_id) ==
    /\ memories' = DeleteUser(memories, user_id)
    /\ ret' = [op |-> "clear", form |-> "async", user_id |-> user_id,
               count |-> Cardinality({i \in Ids : memories[i].user_id = user_id})]
    /\ shadow' = [shadow EXCEPT
           !.memories = DeleteUser(shadow.memories, user_id),
           !.ret = [op |-> "clear", form |-> "blocking", user_id |-> user_id,
                    count |-> Cardinality({i \in DOMAIN shadow.memories :
                                              shadow.memories[i].user_id = user_id})]]
    /\ UNCHANGED <<next_id, now, issued, archive_log, tasks, loop, conc>>

\* MemoryManager has no maintenance of its own: its async_manager runs it
EquivMaintenance ==
    /\ memories' = ArchiveOldMemories(
                      CompressOldMemories(memories, now, CompressDays), now, ArchiveDays)
    /\ ret' = [op |-> "maintenance", form |-> "async"]
    /\ shadow' = [shadow EXCEPT
           !.memories = ArchiveOldMemories(
                           CompressOldMemories(shadow.memories, now, CompressDays),
                           now, ArchiveDays),
           !.ret = [op |-> "maintenance", form |-> "blocking"]]
    /\ UNCHANGED <<next_id, now, issued, archive_log, tasks, loop, conc>>

NextEquiv ==
    \/ \E req \in ScenarioRequests, rs \in ProviderResponses :
          next_id <= MaxSaves /\ EquivSave([req EXCEPT !.embedding = <<1, 0>>], rs)
    \/ \E u \in Users, l \in Limits, c \in Categories \cup {NoCategory} :
          CanTouch(MaxScenarioAccess) /\ EquivRetrieve(u, l, c)
    \/ \E u \in Users, q \in QueryVectors, th \in Thresholds, l \in Limits :
          CanTouch(MaxScenarioAccess) /\ EquivFindSimilar(u, q, th, l)
    \/ \E u \in Users : EquivClear(u)
    \/ EquivMaintenance
    \/ \E d \in ClockSteps : Tick(d)

SpecEquiv == Init /\ [][NextEquiv]_vars

----------------------------------------------------------------------------
\* Fire-and-forget saves

Pending == {t \in tasks : t.state = "pending"}

\* bound of the model: every save that is scheduled or issued finds a free id
RoomToSave == next_id + Cardinality(Pending) <= MaxSaves

NewTask(req, on) ==
    [tid |-> Cardinality(tasks) + 1, req |-> req, on |-> on, state |-> "pending", id |-> 0]

\* asyncio.run(main()) starts: the thread has a running loop
EnterLoop ==
    /\ loop # "running"
    /\ loop' = "running"
    /\ ret' = [op |-> "enter_loop"]
    /\ UNCHANGED <<memories, next_id, now, issued, archive_log, shadow, tasks, conc>>

\* asyncio.run(main()) returns: the tasks still pending on its loop are
\* cancelled, the loop is closed and the thread has no current loop
ExitLoop ==
    /\ loop = "running"
    /\ loop' = "none"
    /\ tasks' = {IF t.on = "main" /\ t.state = "pending"
                 THEN [t EXCEPT !.state = "cancelled"] ELSE t : t \in tasks}
    /\ ret' = [op |-> "exit_loop"]
    /\ UNCHANGED <<memories, next_id, now, issued, archive_log, shadow, conc>>

\* MemoryManager.save_memory_async: a task on the running loop, else
\* asyncio.run of the non-blocking save (which leaves the thread without a
\* current loop), else, get_event_loop raising, the blocking save
SaveMemoryAsync(req) ==
    \/ /\ loop = "running"
       /\ Cardinality(tasks) < MaxTasks
       /\ tasks' = tasks \cup {NewTask(req, "main")}
       /\ ret' = [op |-> "save_memory_async", id |-> 0]
       /\ UNCHANGED <<memories, next_id, now, issued, archive_log, shadow, loop, conc>>
    \/ /\ loop = "idle"
       /\ InsertMemory(req)
       /\ loop' = "none"
       /\ ret' = [op |-> "save_memory_async", id |-> next_id]
       /\ UNCHANGED <<shadow, tasks, conc>>
    \/ /\ loop = "none"
       /\ StoreSaveMemory(req)
       /\ ret' = [op |-> "save_memory_async", id |-> next_id]

\* MemoryComponent.save_memory and save_memory of main_ui: the coroutine is
\* given to a new event loop that is made the current one and never run
UISaveMemory(req) ==
    /\ loop # "running"
    /\ Cardinality(tasks) < MaxTasks
    /\ tasks' = tasks \cup {NewTask(req, "fresh")}
    /\ loop' = "idle"
    /\ ret' = [op |-> "ui_save", saved |-> TRUE, id |-> 0]
    /\ UNCHANGED <<memories, next_id, now, issued, archive_log, shadow, conc>>

\* The running loop runs a task scheduled on it: AsyncMemoryManager.save_memory
RunTask(t) ==
    /\ loop = "running"
    /\ t.on = "main"
    /\ t.state = "pending"
    /\ InsertMemory(t.req)
    /\ tasks' = (tasks \ {t}) \cup {[t EXCEPT !.state = "done", !.id = next_id]}
    /\ ret' = [op |-> "task_done", id |-> next_id]
    /\ UNCHANGED <<shadow, loop, conc>>

InitFire ==
    /\ memories = <<>>
    /\ next_id = 1
    /\ now = 0
    /\ ret = [op |-> "init"]
    /\ issued = {}
    /\ archive_log = [i \in 1..(MaxSaves + MaxScenarioSaves) |-> 0]
    /\ shadow = [memories |-> <<>>, next_id |-> 1, ret |-> [op |-> "init"]]
    /\ tasks = {}
    /\ loop \in {"none", "idle"}
    /\ coros = <<>>
    /\ tracker = NoTracker

NextFire ==
    \/ EnterLoop
    \/ ExitLoop
    \/ \E req \in ScenarioRequests : RoomToSave /\ SaveMemoryAsync(req)
    \/ \E req \in ScenarioRequests : RoomToSave /\ UISaveMemory(req)
    \/ \E t \in tasks : RunTask(t)
    \/ \E req \in ScenarioRequests : RoomToSave /\ SaveMemory(req)
    \/ \E u \in Users, l \in Limits : RetrieveMemories(u, l, NoCategory)
    \/ \E d \in ClockSteps : Tick(d)

\* a running event loop runs the tasks that are ready on it
SpecFire == InitFire /\ [][NextFire]_vars /\ WF_vars(\E t \in tasks : RunTask(t))

----------------------------------------------------------------------------
\* Maintenance run twice in succession by one caller: the clock may move by
\* `elapsed` between the two runs, nothing else happens in between.
Elapsed == {0} \cup ClockSteps

\* AsyncSQLiteMemory.compress_old_memories: the table and cursor.rowcount
CompressRun(mem, t, days_threshold) ==
    [mem |-> CompressOldMemories(mem, t, days_threshold),
     compressed |-> Cardinality({i \in DOMAIN mem : CompressWhere(mem[i], t, days_threshold)})]

\* AsyncSQLiteMemory.archive_old_memories: the table, cursor.rowcount and the rows counted
ArchiveRun(mem, t, days_threshold) ==
    LET counted == {i \in DOMAIN mem : ArchiveWhere(mem[i], t, days_threshold)} IN
    [mem |-> ArchiveOldMemories(mem, t, days_threshold),
     archived |-> Cardinality(counted),
     counted |-> counted]

\* AsyncMemoryManager.perform_memory_maintenance: compress(30), then archive(90)
MaintenanceRun(mem, t) ==
    LET c == CompressRun(mem, t, CompressDays)
        a == ArchiveRun(c.mem, t, ArchiveDays) IN
    [mem |-> a.mem, compressed |-> c.compressed, archived |-> a.archived,
     counted |-> a.counted]

\* perform_memory_maintenance(); perform_memory_maintenance()
MaintenanceTwice(elapsed) ==
    LET first == MaintenanceRun(memories, now)
        second == MaintenanceRun(first.mem, now + elapsed) IN
    /\ now + elapsed <= MaxClock
    /\ now' = now + elapsed
    /\ memories' = second.mem
    /\ archive_log' = [i \in DOMAIN archive_log |->
            archive_log[i] + (IF i \in first.counted THEN 1 ELSE 0)
                           + (IF i \in second.counted THEN 1 ELSE 0)]
    /\ ret' = [op |-> "maintenance_twice", form |-> "async", elapsed |-> elapsed,
               between |-> first.mem,
               first |-> [compressed |-> first.compressed, archived |-> first.archived],
               second |-> [compressed |-> second.compressed, archived |-> second.archived]]
    /\ UNCHANGED <<next_id, issued, aux>>

\* compress_old_memories(); compress_old_memories()
CompressTwice(elapsed) ==
    LET first == CompressRun(memories, now, CompressDays)
        second == CompressRun(first.mem, now + elapsed, CompressDays) IN
    /\ now + elapsed <= MaxClock
    /\ now' = now + elapsed
    /\ memories' = second.mem
    /\ ret' = [op |-> "compress_twice", form |-> "async", elapsed |-> elapsed,
               between |-> first.mem,
               first |-> [compressed |-> first.compressed, archived |-> 0],
               second |-> [compressed |-> second.compressed, archived |-> 0]]
    /\ UNCHANGED <<next_id, issued, archive_log, aux>>

NextMaintenance ==
    \/ \E req \in ScenarioRequests : next_id <= MaxSaves /\ AsyncSaveMemory(req)
    \/ \E u \in Users, l \in Limits :
          CanTouch(MaxAccess) /\ AsyncRetrieveMemories(u, l, NoCategory)
    \/ PerformMemoryMaintenance
    \/ \E e \in Elapsed : MaintenanceTwice(e)
    \/ \E e \in Elapsed : CompressTwice(e)
    \/ \E d \in ClockSteps : Tick(d)

SpecMaintenance == Init /\ [][NextMaintenance]_vars

----------------------------------------------------------------------------
\* The embedding path of the non-blocking save: the provider, the cost ledger
\* and the progress observer are collaborators whose calls succeed or raise.

\* the vector the provider answers request k with
VectorOf(k) == <<k, 1>>

Outcomes == {"ok", "fail"}

\* start_activity / update_activity / complete_activity: which call raises
ObserverOutcomes ==
    { [start |-> "ok",   update |-> "ok",   complete |-> "ok"],
      [start |-> "fail", update |-> "ok",   complete |-> "ok"],
      [start |-> "ok",   update |-> "fail", complete |-> "ok"],
      [start |-> "ok",   update |-> "ok",   complete |-> "fail"] }

\* log_embedding_cost at attempt 1, 2, 3: succeeds or raises
CostOutcomes ==
    { <<"ok", "ok", "ok">>, <<"fail", "ok", "ok">>, <<"fail", "fail", "fail">> }

\* The collaborators of one save: no provider client at all, or a client
\* with the outcome of each of its requests and of the other calls
EmbedEnvs ==
    { [client |-> FALSE, responses |-> <<"fail", "fail", "fail">>,
       cost |-> <<"ok", "ok", "ok">>,
       observer |-> [start |-> "ok", update |-> "ok", complete |-> "ok"]] }
    \cup
    [client : {TRUE}, responses : [1..MaxRetries -> Outcomes],
     cost : CostOutcomes, observer : ObserverOutcomes]

\* what a call has done so far: provider requests issued (by attempt), cost
\* entries appended, waits slept, observer calls that returned
NoEffects == [requests |-> <<>>, entries |-> 0, waits |-> <<>>, observed |-> <<>>]

EmbedResult(outcome, embedding, acc) ==
    [outcome |-> outcome, embedding |-> embedding,
     requests |-> acc.requests, entries |-> acc.entries,
     waits |-> acc.waits, observed |-> acc.observed]

\* Faulty variant: a provider request that raised is taken for an answer
TryAttempt_IgnoreFailure(env, k, acc) ==
    [ok |-> TRUE,
     acc |-> [acc EXCEPT !.observed = @ \o <<"update", "complete">>,
                         !.requests = Append(@, k), !.entries = @ + 1]]

\* the try block of attempt k (k = attempt + 1): update_activity, the provider
\* request, log_embedding_cost, complete_activity; ok when none of them raised
TryAttempt(env, k, acc) ==
    IF env.observer.update = "fail" THEN [ok |-> FALSE, acc |-> acc]
    ELSE LET a1 == [acc EXCEPT !.observed = Append(@, "update"),
                               !.requests = Append(@, k)] IN
         IF env.responses[k] = "fail" THEN [ok |-> FALSE, acc |-> a1]
         ELSE IF env.cost[k] = "fail" THEN [ok |-> FALSE, acc |-> a1]
         ELSE LET a2 == [a1 EXCEPT !.entries = @ + 1] IN
              IF env.observer.complete = "fail" THEN [ok |-> FALSE, acc |-> a2]
              ELSE [ok |-> TRUE, acc |-> [a2 EXCEPT !.observed = Append(@, "complete")]]

\* Faulty variant: every wait is one time unit long
Backoff_Constant(attempt) == 1

\* await asyncio.sleep(2 ** attempt)
Backoff(attempt) == 2 ^ attempt

\* for attempt in range(max_retries): try ... except Exception: the last
\* attempt completes the activity and returns None, the others sleep
\* 2 ** attempt and update the activity; what the handler raises propagates
RECURSIVE Attempt(_, _, _)
Attempt(env, k, acc) ==
    LET b == TryAttempt(env, k, acc) IN
    IF b.ok THEN EmbedResult("vector", VectorOf(k), b.acc)
    ELSE IF k = MaxRetries
         THEN IF env.observer.complete = "fail"
              THEN EmbedResult("raised", NoEmbedding, b.acc)
              ELSE EmbedResult("none", NoEmbedding,
                               [b.acc EXCEPT !.observed = Append(@, "complete")])
    ELSE LET w == [b.acc EXCEPT !.waits = Append(@, Backoff(k - 1))] IN
         IF env.observer.update = "fail"
         THEN EmbedResult("raised", NoEmbedding, w)
         ELSE Attempt(env, k + 1, [w EXCEPT !.observed = Append(@, "update")])

\* AsyncMemoryManager._generate_embedding_with_retry
EmbedWithRetry(env) ==
    IF ~env.client THEN EmbedResult("none", NoEmbedding, NoEffects)
    ELSE IF env.observer.start = "fail" THEN EmbedResult("raised", NoEmbedding, NoEffects)
    ELSE Attempt(env, 1, [NoEffects EXCEPT !.observed = <<"start">>])

\* Faulty variant: a save without embedding stores nothing
AsyncSaveWithEmbedding_SkipWithoutEmbedding(req, env) ==
    LET run == EmbedWithRetry(env) IN
    IF run.outcome # "vector"
    THEN /\ ret' = [op |-> "save_embed", form |-> "async", raised |-> FALSE, id |-> 0,
                    env |-> env, run |-> run]
         /\ UNCHANGED <<memories, next_id, now, issued, archive_log, aux>>
    ELSE /\ InsertMemory([req EXCEPT !.embedding = run.embedding])
         /\ ret' = [op |-> "save_embed", form |-> "async", raised |-> FALSE, id |-> next_id,
                    env |-> env, run |-> run]
         /\ UNCHANGED aux

\* AsyncMemoryManager.save_memory: the embedding, then the INSERT; what
\* _generate_embedding_with_retry raises leaves save_memory before the INSERT
AsyncSaveWithEmbedding(req, env) ==
    LET run == EmbedWithRetry(env) IN
    IF run.outcome = "raised"
    THEN /\ ret' = [op |-> "save_embed", form |-> "async", raised |-> TRUE, id |-> 0,
                    env |-> env, run |-> run]
         /\ UNCHANGED <<memories, next_id, now, issued, archive_log, aux>>
    ELSE /\ InsertMemory([req EXCEPT !.embedding = run.embedding])
         /\ ret' = [op |-> "save_embed", form |-> "async", raised |-> FALSE, id |-> next_id,
                    env |-> env, run |-> run]
         /\ UNCHANGED aux

NextEmbed ==
    \/ \E req \in ScenarioRequests, env \in EmbedEnvs :
          next_id <= MaxSaves /\ AsyncSaveWithEmbedding(req, env)
    \/ \E u \in Users, l \in Limits :
          CanTouch(MaxScenarioAccess) /\ AsyncRetrieveMemories(u, l, NoCategory)
    \/ \E u \in Users : AsyncClearUserMemories(u)

SpecEmbed == Init /\ [][NextEmbed]_vars

----------------------------------------------------------------------------
\* Similarity search over records with embeddings of norm 1 or 5, so that
\* every cosine is a rational number: 1, 3/5, 4/5, 0, -1, ...
SimilarRequests ==
    { [user_id |-> "u1", content |-> ShortContent, category |-> "a", embedding |-> NoEmbedding],
      [user_id |-> "u1", content |-> ShortContent, category |-> "a", embedding |-> <<1, 0>>],
      [user_id |-> "u1", content |-> ShortContent, category |-> "a", embedding |-> <<3, 4>>],
      [user_id |-> "u1", content |-> ShortContent, category |-> "a", embedding |-> <<-1, 0>>],
      [user_id |-> "u2", content |-> ShortContent, category |-> "a", embedding |-> <<1, 0>>] }

\* thresholds 0.7 (the default) and -0.5
SimilarThresholds == {<<7, 10>>, <<-1, 2>>}

NextSimilar ==
    \/ \E req \in SimilarRequests : next_id <= MaxScenarioSaves /\ AsyncSaveMemory(req)
    \/ \E u \in Users, q \in QueryVectors, th \in SimilarThresholds, l \in Limits :
          FindSimilarMemories(u, q, th, l)
    \/ \E u \in Users, q \in QueryVectors, th \in SimilarThresholds, l \in Limits :
          CanTouch(MaxScenarioAccess) /\ AsyncFindSimilarMemories(u, q, th, l)

SpecSimilar == Init /\ [][NextSimilar]_vars

----------------------------------------------------------------------------
\* A database file whose JSON columns hold text that another writer of the
\* file left there: the schema declares embedding and metadata as TEXT.
JsonColumns == {"embedding", "metadata"}

ForeignWrite(id, column) ==
    /\ id \in Ids
    /\ memories[id][column] # BadText
    /\ memories' = [memories EXCEPT ![id][column] = BadText]
    /\ ret' = [op |-> "foreign_write", id |-> id, column |-> column]
    /\ UNCHANGED <<next_id, now, issued, archive_log, aux>>

NextForeign ==
    \/ \E req \in SaveRequests : next_id <= MaxSaves /\ AsyncSaveMemory(req)
    \/ \E id \in 1..MaxSaves, column \in JsonColumns : ForeignWrite(id, column)
    \/ \E u \in Users, l \in Limits, c \in Categories \cup {NoCategory} :
          RetrieveMemories(u, l, c)
    \/ \E u \in Users, l \in Limits, c \in Categories \cup {NoCategory} :
          CanTouch(MaxScenarioAccess) /\ AsyncRetrieveMemories(u, l, c)

SpecForeign == Init /\ [][NextForeign]_vars

----------------------------------------------------------------------------
\* Saves whose user_id or content is the empty string: both columns are
\* TEXT NOT NULL, and save_memory passes its arguments to the INSERT.
EmptyUser == ""
EmptyContent == <<>>

EdgeRequests ==
    [user_id : {"u1", EmptyUser}, content : {ShortContent, EmptyContent},
     category : {"a"}, embedding : {NoEmbedding}]

NextEdge ==
    \/ \E req \in EdgeRequests : next_id <= MaxSaves /\ SaveMemory(req)
    \/ \E req \in EdgeRequests : next_id <= MaxSaves /\ AsyncSaveMemory(req)
    \/ \E u \in {"u1", EmptyUser}, l \in Limits : RetrieveMemories(u, l, NoCategory)
    \/ \E u \in {"u1", EmptyUser}, l \in Limits :
          CanTouch(MaxScenarioAccess) /\ AsyncRetrieveMemories(u, l, NoCategory)
    \/ \E u \in {"u1", EmptyUser} : AsyncClearUserMemories(u)

SpecEdge == Init /\ [][NextEdge]_vars

----------------------------------------------------------------------------
\* Initialisation on a database file written by an earlier version: the
\* memories table has the basic columns and some of the lifecycle columns.
\* A row of such a table is a record without the fields its table lacks.
BaseColumns == {"id", "user_id", "content", "embedding", "timestamp", "metadata", "category"}
LifecycleColumns == {"compressed", "archived", "access_count", "last_accessed"}

\* the rows of a table with the lifecycle columns `present', saved at time
\* 0: a column that exists holds a value the stores can have given it
LegacyRows(id, present) ==
    LET full == InsertRow(id, "u1", ShortContent, NoEmbedding, StampMetadata(0), "a", 0) IN
    { [c \in BaseColumns \cup present |->
          IF c = "compressed" THEN compressed
          ELSE IF c = "access_count" THEN access_count
          ELSE IF c = "last_accessed" THEN last_accessed
          ELSE full[c]] :
        compressed \in BOOLEAN, access_count \in {0, 1}, last_accessed \in {NullTime, 0} }

\* the tables of 1 .. MaxSaves rows with one set of columns
LegacyTables ==
    UNION { UNION { { t \in [1..n -> UNION {LegacyRows(i, present) : i \in 1..n}] :
                        \A i \in 1..n : t[i].id = i } :
                    n \in 1..MaxSaves } :
            present \in SUBSET LifecycleColumns }

\* PRAGMA table_info(memories): column_names
ColumnNames(mem) == UNION {DOMAIN mem[i] : i \in DOMAIN mem}

\* Faulty variant: last_accessed is added and not backfilled
MigrateRow_NoBackfill(row) ==
    [c \in DOMAIN row \cup LifecycleColumns |->
        IF c \in DOMAIN row THEN row[c]
        ELSE IF c = "compressed" THEN FALSE
        ELSE IF c = "archived" THEN FALSE
        ELSE IF c = "access_count" THEN 0
        ELSE NullTime]

\* _migrate_database on one row: ALTER TABLE ... ADD COLUMN gives the row the
\* column's default; when last_accessed was added, UPDATE memories SET
\* last_accessed = timestamp WHERE last_accessed IS NULL
MigrateRow(row) ==
    [c \in DOMAIN row \cup LifecycleColumns |->
        IF c \in DOMAIN row THEN row[c]
        ELSE IF c = "compressed" THEN FALSE
        ELSE IF c = "archived" THEN FALSE
        ELSE IF c = "access_count" THEN 0
        ELSE row.timestamp]

\* SQLiteMemory._initialize_database / AsyncSQLiteMemory.initialize_database:
\* CREATE TABLE IF NOT EXISTS, _migrate_database, CREATE INDEX IF NOT EXISTS
InitializeDatabase ==
    /\ memories' = [i \in Ids |-> MigrateRow(memories[i])]
    /\ ret' = [op |-> "initialize",
               added |-> IF Ids = {} THEN {} ELSE LifecycleColumns \ ColumnNames(memories)]
    /\ UNCHANGED <<next_id, now, issued, archive_log, aux>>

\* every operation of the stores runs on an initialised database
Migrated == \A i \in Ids : LifecycleColumns \subseteq DOMAIN memories[i]

InitLegacy ==
    /\ memories \in LegacyTables
    /\ next_id = Cardinality(DOMAIN memories) + 1
    /\ now = 46
    /\ ret = [op |-> "legacy"]
    /\ issued = {}
    /\ archive_log = [i \in 1..(MaxSaves + MaxScenarioSaves) |-> 0]
    /\ shadow = [memories |-> <<>>, next_id |-> 1, ret |-> [op |-> "init"]]
    /\ tasks = {}
    /\ loop = "idle"
    /\ coros = <<>>
    /\ tracker = NoTracker

NextLegacy ==
    \/ InitializeDatabase
    \/ \E req \in ScenarioRequests :
          Migrated /\ next_id <= MaxSaves + 1 /\ AsyncSaveMemory(req)
    \/ \E u \in Users, l \in Limits :
          Migrated /\ CanTouch(MaxScenarioAccess) /\ AsyncRetrieveMemories(u, l, NoCategory)

SpecLegacy == InitLegacy /\ [][NextLegacy]_vars

----------------------------------------------------------------------------
\* compress_old_memories called on its own, with the default threshold and
\* with a longer one, on rows retrieved up to the access ceiling of the UPDATE
CompressThresholds == {CompressDays, 60}

\* AsyncSQLiteMemory.compress_old_memories(days_threshold)
AsyncCompressOldMemories(days_threshold) ==
    LET run == CompressRun(memories, now, days_threshold) IN
    /\ memories' = run.mem
    /\ ret' = [op |-> "compress", form |-> "async", days |-> days_threshold,
               count |-> run.compressed]
    /\ UNCHANGED <<next_id, now, issued, archive_log, aux>>

NextCompress ==
    \/ \E req \in SaveRequests : next_id <= MaxSaves /\ AsyncSaveMemory(req)
    \/ \E u \in Users :
          CanTouch(CompressAccessCeiling) /\ AsyncRetrieveMemories(u, 10, NoCategory)
    \/ \E d \in CompressThresholds : AsyncCompressOldMemories(d)
    \/ \E d \in ClockSteps : Tick(d)

SpecCompress == Init /\ [][NextCompress]_vars

----------------------------------------------------------------------------
\* Calls of the non-blocking form interleaved on one event loop: a call runs
\* from one await on its database connection to the next, and the other
\* calls run in between. An UPDATE and the commit that follows it are one
\* step: the write is visible to the other connections at the commit, and
\* SQLite keeps the other writers out in between.

RowIds(rows) == {rows[k].id : k \in 1..Len(rows)}

Done(op) == {t \in DOMAIN coros : coros[t].op = op /\ coros[t].pc = "done"}

\* AsyncSQLiteMemory.get_memories up to rows = await cursor.fetchall()
GetSelect(user_id, limit, category) ==
    \E sel \in AsyncSelect(memories, user_id, limit, category) :
       LET rows == RowsOf(memories, sel)
           call == Len(coros) + 1 IN
       /\ coros' = Append(coros, [op |-> "get",
                                  pc |-> IF sel = <<>> THEN "done" ELSE "update",
                                  args |-> <<user_id, limit, category>>,
                                  rows |-> rows])
       /\ ret' = IF sel = <<>>
                 THEN [op |-> "retrieve", form |-> "async", call |-> call,
                       args |-> <<user_id, limit, category>>, rows |-> rows,
                       text |-> FormatMemories(rows)]
                 ELSE [op |-> "await", call |-> call]
       /\ UNCHANGED <<memories, next_id, now, issued, archive_log, shadow, tasks, loop, tracker>>

\* Faulty variant: the counter is written back from the rows that were read
GetUpdate_FromSnapshot(t) ==
    LET rows == coros[t].rows IN
    /\ coros[t].op = "get"
    /\ coros[t].pc = "update"
    /\ memories' = [i \in Ids |->
          IF \E k \in 1..Len(rows) : rows[k].id = i
          THEN LET k == CHOOSE k \in 1..Len(rows) : rows[k].id = i IN
               [memories[i] EXCEPT !.access_count = rows[k].access_count + 1,
                                   !.last_accessed = now]
          ELSE memories[i]]
    /\ coros' = [coros EXCEPT ![t].pc = "done"]
    /\ ret' = [op |-> "retrieve", form |-> "async", call |-> t,
               args |-> coros[t].args, rows |-> rows, text |-> FormatMemories(rows)]
    /\ UNCHANGED <<next_id, now, issued, archive_log, shadow, tasks, loop, tracker>>

\* get_memories from the UPDATE ... WHERE id IN (ids of rows) and its commit
\* to the return of the rows that were read
GetUpdate(t) ==
    LET rows == coros[t].rows IN
    /\ coros[t].op = "get"
    /\ coros[t].pc = "update"
    /\ memories' = TrackAccess(memories, RowIds(rows), now)
    /\ coros' = [coros EXCEPT ![t].pc = "done"]
    /\ ret' = [op |-> "retrieve", form |-> "async", call |-> t,
               args |-> coros[t].args, rows |-> rows, text |-> FormatMemories(rows)]
    /\ UNCHANGED <<next_id, now, issued, archive_log, shadow, tasks, loop, tracker>>

NextGets ==
    \/ \E req \in ScenarioRequests : next_id <= MaxSaves /\ AsyncSaveMemory(req)
    \/ \E u \in Users, l \in Limits :
          Len(coros) < MaxCalls /\ GetSelect(u, l, NoCategory)
    \/ \E t \in DOMAIN coros : GetUpdate(t)

SpecGets == Init /\ [][NextGets]_vars

----------------------------------------------------------------------------
\* get_memory_stats interleaved with the writers: its four SELECT COUNT(*)
\* are four statements on a connection that has no transaction open, each
\* reading the table as committed at that moment.

\* the call returned: its coroutine is gone
Leave(t) == [k \in 1..(Len(coros) - 1) |-> IF k < t THEN coros[k] ELSE coros[k + 1]]

\* SELECT COUNT(*) FROM memories WHERE user_id = ? [AND column = value]
CountWhere(user_id, column, value) ==
    Cardinality({i \in Ids : /\ memories[i].user_id = user_id
                             /\ (column # "" => memories[i][column] = value)})

\* get_memory_stats up to total = (await cursor.fetchone())[0]
StatsTotal(user_id) ==
    /\ coros' = Append(coros, [op |-> "stats", pc |-> "active", args |-> <<user_id>>,
                               total |-> CountWhere(user_id, "", FALSE),
                               active |-> 0, compressed |-> 0])
    /\ ret' = [op |-> "await", call |-> Len(coros) + 1]
    /\ UNCHANGED <<memories, next_id, now, issued, archive_log, shadow, tasks, loop, tracker>>

\* ... up to active = (await cursor.fetchone())[0]
StatsActive(t) ==
    /\ coros[t].op = "stats"
    /\ coros[t].pc = "active"
    /\ coros' = [coros EXCEPT ![t].pc = "compressed",
                              ![t].active = CountWhere(coros[t].args[1], "archived", FALSE)]
    /\ ret' = [op |-> "await", call |-> t]
    /\ UNCHANGED <<memories, next_id, now, issued, archive_log, shadow, tasks, loop, tracker>>

\* ... up to compressed = (await cursor.fetchone())[0]
StatsCompressed(t) ==
    /\ coros[t].op = "stats"
    /\ coros[t].pc = "compressed"
    /\ coros' = [coros EXCEPT ![t].pc = "archived",
                              ![t].compressed = CountWhere(coros[t].args[1], "compressed", TRUE)]
    /\ ret' = [op |-> "await", call |-> t]
    /\ UNCHANGED <<memories, next_id, now, issued, archive_log, shadow, tasks, loop, tracker>>

\* ... up to the return of the four counts
StatsArchived(t) ==
    /\ coros[t].op = "stats"
    /\ coros[t].pc = "archived"
    /\ coros' = Leave(t)
    /\ ret' = [op |-> "stats", form |-> "async", call |-> t,
               user_id |-> coros[t].args[1],
               total |-> coros[t].total,
               active |-> coros[t].active,
               compressed |-> coros[t].compressed,
               archived |-> CountWhere(coros[t].args[1], "archived", TRUE)]
    /\ UNCHANGED <<memories, next_id, now, issued, archive_log, shadow, tasks, loop, tracker>>

\* perform_memory_maintenance up to compressed = await compress_old_memories(30)
MaintenanceCompress ==
    LET run == CompressRun(memories, now, CompressDays) IN
    /\ memories' = run.mem
    /\ coros' = Append(coros, [op |-> "maintenance", pc |-> "archive", args |-> <<>>,
                               total |-> 0, active |-> 0, compressed |-> run.compressed])
    /\ ret' = [op |-> "await", call |-> Len(coros) + 1]
    /\ UNCHANGED <<next_id, now, issued, archive_log, shadow, tasks, loop, tracker>>

\* ... archived = await archive_old_memories(90), and the return
MaintenanceArchive(t) ==
    LET run == ArchiveRun(memories, now, ArchiveDays) IN
    /\ coros[t].op = "maintenance"
    /\ coros[t].pc = "archive"
    /\ memories' = run.mem
    /\ archive_log' = [i \in DOMAIN archive_log |->
                          IF i \in run.counted THEN archive_log[i] + 1 ELSE archive_log[i]]
    /\ coros' = Leave(t)
    /\ ret' = [op |-> "maintenance", form |-> "async", call |-> t,
               compressed |-> coros[t].compressed, archived |-> run.archived]
    /\ UNCHANGED <<next_id, now, issued, shadow, tasks, loop, tracker>>

\* bound of the model: one call of a kind in flight
NoneInFlight(op) == \A t \in DOMAIN coros : coros[t].op # op

NextStats ==
    \/ \E req \in ScenarioRequests : next_id <= MaxSaves /\ AsyncSaveMemory(req)
    \/ \E u \in Users : AsyncClearUserMemories(u)
    \/ \E u \in Users : NoneInFlight("stats") /\ StatsTotal(u)
    \/ \E t \in DOMAIN coros : StatsActive(t)
    \/ \E t \in DOMAIN coros : StatsCompressed(t)
    \/ \E t \in DOMAIN coros : StatsArchived(t)
    \/ NoneInFlight("maintenance") /\ MaintenanceCompress
    \/ \E t \in DOMAIN coros : MaintenanceArchive(t)
    \/ \E d \in ClockSteps : Tick(d)

SpecStats == Init /\ [][NextStats]_vars

----------------------------------------------------------------------------
\* Calls started together on an AsyncSQLiteMemory that is not initialised:
\* each of them enters initialize_database, finds _initialized False and
\* migrates the table on a connection of its own. An ALTER TABLE is committed
\* when it has run (no transaction is open before the UPDATE of the
\* backfill); the UPDATE is committed with the indices at the end.

\* the order of the ALTER TABLE statements of _migrate_database
MigrationOrder == <<"compressed", "archived", "access_count", "last_accessed">>

\* self._initialized, set by the first initialize_database that reaches its end
Initialized == \E t \in DOMAIN coros : coros[t].op = "init" /\ coros[t].pc = "done"

\* ALTER TABLE memories ADD COLUMN column ... DEFAULT ...
AddColumn(mem, column) ==
    [i \in DOMAIN mem |->
        [c \in DOMAIN mem[i] \cup {column} |->
            IF c # column THEN mem[i][c]
            ELSE IF c = "compressed" THEN FALSE
            ELSE IF c = "archived" THEN FALSE
            ELSE IF c = "access_count" THEN 0
            ELSE NullTime]]

\* UPDATE memories SET last_accessed = timestamp WHERE last_accessed IS NULL
Backfill(mem) ==
    [i \in DOMAIN mem |->
        IF mem[i].last_accessed = NullTime
        THEN [mem[i] EXCEPT !.last_accessed = mem[i].timestamp]
        ELSE mem[i]]

\* the columns the call has still to add, going by the column_names it read
Missing(t) ==
    SelectSeq(MigrationOrder, LAMBDA c : c \notin coros[t].names /\ c \notin coros[t].added)

\* initialize_database up to column_names = [col[1] for col in columns]
InitPragma ==
    /\ ~Initialized
    /\ coros' = Append(coros, [op |-> "init", pc |-> "alter",
                               names |-> ColumnNames(memories), added |-> {},
                               before |-> memories])
    /\ ret' = [op |-> "await", call |-> Len(coros) + 1]
    /\ UNCHANGED <<memories, next_id, now, issued, archive_log, shadow, tasks, loop, tracker>>

\* the next ALTER TABLE of _migrate_database: SQLite refuses a column that
\* exists ("duplicate column name"), and the error leaves initialize_database
\* and the call; with nothing left to add, the indices, the commit and
\* self._initialized = True
InitAlter(t) ==
    /\ coros[t].op = "init"
    /\ coros[t].pc = "alter"
    /\ IF Missing(t) = <<>>
       THEN /\ coros' = [coros EXCEPT ![t].pc = "done"]
            /\ ret' = [op |-> "initialize", call |-> t, added |-> coros[t].added]
            /\ UNCHANGED memories
       ELSE LET column == Head(Missing(t)) IN
            IF column \in ColumnNames(memories)
            THEN /\ coros' = [coros EXCEPT ![t].pc = "failed"]
                 /\ ret' = [op |-> "initialize", call |-> t, added |-> coros[t].added,
                            raised |-> "OperationalError"]
                 /\ UNCHANGED memories
            ELSE /\ memories' = AddColumn(memories, column)
                 /\ coros' = [coros EXCEPT ![t].added = @ \cup {column},
                                           ![t].pc = IF column = "last_accessed"
                                                     THEN "backfill" ELSE "alter"]
                 /\ ret' = [op |-> "await", call |-> t]
    /\ UNCHANGED <<next_id, now, issued, archive_log, shadow, tasks, loop, tracker>>

\* the UPDATE of the backfill, the indices, the commit and
\* self._initialized = True
InitBackfill(t) ==
    /\ coros[t].op = "init"
    /\ coros[t].pc = "backfill"
    /\ memories' = Backfill(memories)
    /\ coros' = [coros EXCEPT ![t].pc = "done"]
    /\ ret' = [op |-> "initialize", call |-> t, added |-> coros[t].added]
    /\ UNCHANGED <<next_id, now, issued, archive_log, shadow, tasks, loop, tracker>>

\* the calls go on to their own statements once initialize_database returned
NextInit ==
    \/ Len(coros) < MaxCalls /\ InitPragma
    \/ \E t \in DOMAIN coros : InitAlter(t)
    \/ \E t \in DOMAIN coros : InitBackfill(t)
    \/ \E req \in ScenarioRequests :
          Initialized /\ next_id <= MaxSaves + 1 /\ AsyncSaveMemory(req)
    \/ \E u \in Users : Initialized /\ GetUserMemoryStats(u)

SpecInit == InitLegacy /\ [][NextInit]_vars

----------------------------------------------------------------------------
\* _generate_embedding_with_retry calls interleaved on one event loop, with
\* the module's ActivityTracker as progress observer. The methods of the
\* tracker have no await of their own; a call is suspended at the provider
\* request, at the ledger write and at the sleep of the backoff.

\* ActivityTracker.start_activity: the new activity is logged and made current
StartActivity(tr) ==
    [activity_id |-> tr.activity_id + 1,
     current |-> tr.activity_id + 1,
     log |-> Append(tr.log, [id |-> tr.activity_id + 1, status |-> "running", updates |-> 0])]

\* ActivityTracker.update_activity: acts on the current activity, if it is the one named
UpdateActivity(tr, activity_id) ==
    IF tr.current # 0 /\ tr.current = activity_id
    THEN [tr EXCEPT !.log[activity_id].updates = @ + 1]
    ELSE tr

\* ActivityTracker.complete_activity: acts on the current activity, if it is the one named
CompleteActivity(tr, activity_id) ==
    IF tr.current # 0 /\ tr.current = activity_id
    THEN [tr EXCEPT !.log[activity_id].status = "complete"]
    ELSE tr

\* the call up to its first await self.openai_client.embeddings.create(...)
EmbedStart ==
    LET started == StartActivity(tracker) IN
    /\ tracker' = UpdateActivity(started, started.activity_id)
    /\ coros' = Append(coros, [op |-> "embed", pc |-> "request",
                               activity |-> started.activity_id, attempt |-> 0,
                               outcome |-> "pending"])
    /\ ret' = [op |-> "await", call |-> Len(coros) + 1]
    /\ UNCHANGED <<memories, next_id, now, issued, archive_log, shadow, tasks, loop>>

\* the provider answers or the request raises: on to the ledger write, to
\* the sleep of the backoff, or, after the last attempt, complete_activity
\* and return None
EmbedAnswer(t, response) ==
    /\ coros[t].op = "embed"
    /\ coros[t].pc = "request"
    /\ IF response = "ok"
       THEN /\ coros' = [coros EXCEPT ![t].pc = "cost"]
            /\ ret' = [op |-> "await", call |-> t]
            /\ UNCHANGED tracker
       ELSE IF coros[t].attempt = MaxRetries - 1
       THEN /\ tracker' = CompleteActivity(tracker, coros[t].activity)
            /\ coros' = [coros EXCEPT ![t].pc = "done", ![t].outcome = "none"]
            /\ ret' = [op |-> "embed", call |-> t, outcome |-> "none",
                       activity |-> coros[t].activity]
       ELSE /\ coros' = [coros EXCEPT ![t].pc = "sleep"]
            /\ ret' = [op |-> "await", call |-> t]
            /\ UNCHANGED tracker
    /\ UNCHANGED <<memories, next_id, now, issued, archive_log, shadow, tasks, loop>>

\* log_embedding_cost returned: complete_activity and return the vector
EmbedLogged(t) ==
    /\ coros[t].op = "embed"
    /\ coros[t].pc = "cost"
    /\ tracker' = CompleteActivity(tracker, coros[t].activity)
    /\ coros' = [coros EXCEPT ![t].pc = "done", ![t].outcome = "vector"]
    /\ ret' = [op |-> "embed", call |-> t, outcome |-> "vector",
               activity |-> coros[t].activity]
    /\ UNCHANGED <<memories, next_id, now, issued, archive_log, shadow, tasks, loop>>

\* asyncio.sleep returned: update_activity of the handler, then the next
\* attempt up to its request
EmbedWake(t) ==
    /\ coros[t].op = "embed"
    /\ coros[t].pc = "sleep"
    /\ tracker' = UpdateActivity(UpdateActivity(tracker, coros[t].activity),
                                 coros[t].activity)
    /\ coros' = [coros EXCEPT ![t].pc = "request", ![t].attempt = @ + 1]
    /\ ret' = [op |-> "await", call |-> t]
    /\ UNCHANGED <<memories, next_id, now, issued, archive_log, shadow, tasks, loop>>

NextObserver ==
    \/ Len(coros) < MaxCalls /\ EmbedStart
    \/ \E t \in DOMAIN coros, response \in Outcomes : EmbedAnswer(t, response)
    \/ \E t \in DOMAIN coros : EmbedLogged(t)
    \/ \E t \in DOMAIN coros : EmbedWake(t)

SpecObserver == Init /\ [][NextObserver]_vars

----------------------------------------------------------------------------
\* Helpers of the properties
ReturnedIds == {ret.rows[k].id : k \in 1..Len(ret.rows)}

IsGet == ret.op \in {"retrieve", "find_similar"}

MaxOf(S) == CHOOSE m \in S : \A x \in S : x <= m

\* The rows of user_id a retrieve with this category is to consider
Visible(user_id, category) ==
    {i \in Ids : /\ memories[i].user_id = user_id
                 /\ ~memories[i].archived
                 /\ (category # NoCategory => memories[i].category = category)}

\* the columns the two forms have to agree on
Stored(mem) ==
    [i \in DOMAIN mem |->
        [user_id |-> mem[i].user_id, content |-> mem[i].content,
         embedding |-> mem[i].embedding, category |-> mem[i].category,
         compressed |-> mem[i].compressed, archived |-> mem[i].archived,
         access_count |-> mem[i].access_count]]

Returned(r) ==
    IF r.op = "retrieve" THEN r.text
    ELSE IF r.op = "find_similar"
         THEN [k \in 1..Len(r.rows) |->
                  <<r.rows[k].id, r.rows[k].content, r.rows[k].similarity_score>>]
    ELSE IF r.op = "clear" THEN r.count
    ELSE <<>>

\* C1: after the same calls with the same provider responses, the database
\* written through the blocking form and the one written through the
\* non-blocking form hold identical rows, and each call returned the same.
C1_FormsEquivalent ==
    /\ Stored(shadow.memories) = Stored(memories)
    /\ shadow.ret.op = ret.op => Returned(shadow.ret) = Returned(ret)

\* the record a blocking save of the task's arguments would have stored
Persisted(t) ==
    /\ t.state = "done"
    /\ t.id \in Ids
    /\ memories[t.id].user_id = t.req.user_id
    /\ memories[t.id].content = t.req.content
    /\ memories[t.id].category = t.req.category
    /\ memories[t.id].embedding = JsonDumps(t.req.embedding)

\* C2: every save that was scheduled without being awaited is eventually in
\* the table, as the record a blocking save of the same arguments stores.
C2_ScheduledSavePersists ==
    \A k \in 1..MaxTasks :
       (\E t \in tasks : t.tid = k) ~> (\E t \in tasks : t.tid = k /\ Persisted(t))

\* C3: a blocking retrieve that starts after the saves returned includes every
\* visible record of the user when the limit does not cut the result, and for
\* any limit >= 1 it includes the most recently saved visible record, also
\* when several records carry the same timestamp.
C3_RetrieveIncludesSaved ==
    [][(ret'.op = "retrieve" /\ ret'.form = "blocking") =>
             LET a == ret'.args
                 V == Visible(a[1], a[3])
                 got == {ret'.rows[k].id : k \in 1..Len(ret'.rows)} IN
             /\ a[2] >= Cardinality({i \in Ids : memories[i].user_id = a[1]}) => V \subseteq got
             /\ V # {} => MaxOf(V) \in got]_vars

\* C4: no retrieve or get, in either form, returns a record whose archived
\* flag is true.
C4_NeverReturnsArchived ==
    IsGet => \A k \in 1..Len(ret.rows) : ret.rows[k].archived = FALSE

Count(seq, x) == Cardinality({k \in 1..Len(seq) : seq[k] = x})

\* C5: a non-blocking retrieve(user, limit, category) returns min(limit, n)
\* entries "[timestamp] content", one per record, for the newest of the n
\* visible records of that user and category, newest first, and none of
\* another user, another category or an archived record.
C5_RetrieveNewestOfCategory ==
    [][(ret'.op = "retrieve" /\ ret'.form = "async") =>
             LET a == ret'.args
                 V == Visible(a[1], a[3])
                 rows == ret'.rows
                 n == Len(rows)
                 got == {rows[k].id : k \in 1..n} IN
             /\ n = Min(a[2], Cardinality(V))
             /\ Cardinality(got) = n
             /\ got \subseteq V
             /\ \A i, j \in 1..n : i < j => rows[i].timestamp >= rows[j].timestamp
             /\ \A m \in V \ got : \A k \in 1..n : rows[k].timestamp >= memories[m].timestamp
             /\ n > 0 =>
                   /\ ret'.text = JoinLines([k \in 1..n |->
                          <<"[", ToString(memories[rows[k].id].timestamp), "]", " ">>
                             \o memories[rows[k].id].content])
                   /\ Count(ret'.text, "\n") = n - 1]_vars

\* three records of one user with categories a, a, b: the retrieve for
\* category a returned exactly the two a records
C5_Witness ==
    /\ ret.op = "retrieve"
    /\ ret.form = "async"
    /\ ret.args[2] = 10
    /\ ret.args[3] = "a"
    /\ Len(ret.rows) = 2
    /\ Count(ret.text, "\n") = 1
    /\ \A k \in 1..2 : ret.rows[k].category = "a"
    /\ \E u \in Users :
          /\ Cardinality({i \in Ids : memories[i].user_id = u /\ memories[i].category = "a"}) = 2
          /\ Cardinality({i \in Ids : memories[i].user_id = u /\ memories[i].category = "b"}) = 1
          /\ \A i \in Ids : memories[i].user_id = u /\ ~memories[i].archived

\* C6: every retrieve, blocking or not, adds exactly 1 to access_count and
\* refreshes last_accessed of each row it returns and leaves both columns of
\* every other row unchanged.
C6_GetTracksAccess ==
    [][ret'.op = "retrieve" =>
          LET got == {ret'.rows[k].id : k \in 1..Len(ret'.rows)} IN
          /\ Ids' = Ids
          /\ \A i \in Ids :
                IF i \in got
                THEN /\ memories'[i].access_count = memories[i].access_count + 1
                     /\ memories'[i].last_accessed = now
                ELSE /\ memories'[i].access_count = memories[i].access_count
                     /\ memories'[i].last_accessed = memories[i].last_accessed]_vars

\* C7: the archived flag of a record never goes from true back to false, and
\* no record is counted as newly archived by more than one archive call.
C7_ArchivedMonotone ==
    /\ [](\A i \in DOMAIN archive_log : archive_log[i] <= 1)
    /\ [][\A i \in Ids \cap Ids' : memories[i].archived => memories'[i].archived]_vars

\* a second maintenance ran over a record that was archived before: it counts
\* nothing and the record stays archived
C7_Witness ==
    /\ ret.op = "maintenance"
    /\ ret.archived = 0
    /\ \E i \in Ids : memories[i].archived /\ archive_log[i] = 1

\* C8: a compressed record's content is at most 500 characters plus the
\* marker '...[compressed]' long (515), and no step resets its compressed flag
\* or changes its content again.
C8_CompressedBounded ==
    /\ [](\A i \in Ids : memories[i].compressed =>
             Len(memories[i].content) <= CompressPrefixLen + Len(Marker))
    /\ [][\A i \in Ids \cap Ids' : memories[i].compressed =>
             /\ memories'[i].compressed
             /\ memories'[i].content = memories[i].content]_vars

\* a record longer than 500 characters was compressed to exactly 515, and a
\* later maintenance found nothing more to compress
C8_Witness ==
    /\ ret.op = "maintenance"
    /\ ret.compressed = 0
    /\ \E i \in Ids : /\ memories[i].compressed
                      /\ Len(memories[i].content) = CompressPrefixLen + Len(Marker)

\* C9: in every step access_count of a record that stays in the table does not
\* decrease and last_accessed does not move back (a record never accessed has
\* no last_accessed, which is earlier than any time).
C9_AccessMonotone ==
    [][\A i \in Ids \cap Ids' :
          /\ memories'[i].access_count >= memories[i].access_count
          /\ memories'[i].last_accessed >= memories[i].last_accessed]_vars

\* a record was returned twice, the second time later than its creation
C9_Witness ==
    \E i \in Ids : /\ memories[i].access_count = 2
                   /\ memories[i].last_accessed > memories[i].timestamp

\* C10: every id a save handed out and no later clear of its user covered is
\* still in the table, with the same id, user and timestamp.
C10_NoRowRemoved ==
    \A h \in issued :
       /\ h.id \in Ids
       /\ memories[h.id].id = h.id
       /\ memories[h.id].user_id = h.user_id
       /\ memories[h.id].timestamp = h.timestamp

\* a maintenance run archived and compressed a record and the record is still
\* in the table
C10_Witness ==
    /\ ret.op = "maintenance"
    /\ ret.archived >= 1
    /\ \E h \in issued : h.id \in Ids /\ memories[h.id].archived /\ memories[h.id].compressed

\* C11: clear(user) returns the number of records saved for that user and not
\* cleared since, archived and compressed ones included, and every retrieve
\* for a user with no save since the last clear returns the sentinel string.
C11_ClearCountsAndEmpties ==
    [][/\ ret'.op = "clear" =>
             ret'.count = Cardinality({h \in issued : h.user_id = ret'.user_id})
       /\ (ret'.op = "retrieve" /\ ~\E h \in issued : h.user_id = ret'.args[1]) =>
             ret'.text = Sentinel]_vars

\* a clear removed two records of its user, one of them archived
C11_Witness ==
    /\ ret.op = "clear"
    /\ ret.count = 2
    /\ Ids = {}
    /\ \E i \in DOMAIN archive_log : archive_log[i] = 1

IsTwice == ret.op \in {"maintenance_twice", "compress_twice"}

SecondRunIdle ==
    /\ ret.second.compressed = 0
    /\ ret.second.archived = 0
    /\ memories = ret.between

\* C12 as stated: of two maintenance runs (or two compress runs) in
\* succession with nothing but the passing of time in between, the second
\* reports compressed = 0 and archived = 0 and leaves every row unchanged.
C12_SecondRunIdle ==
    IsTwice => SecondRunIdle

\* C12 amended: the same when no time passes between the two runs, so that no
\* row comes of age in between.
C12_SecondRunIdleSameClock ==
    (IsTwice /\ ret.elapsed = 0) => SecondRunIdle

\* the first of two runs at the same clock value compressed and archived a
\* record, the second found nothing to do
C12_Witness ==
    /\ ret.op = "maintenance_twice"
    /\ ret.elapsed = 0
    /\ ret.first.compressed >= 1
    /\ ret.first.archived >= 1
    /\ SecondRunIdle

\* C13: a maintenance run leaves archived = true on the rows that were
\* archived before and on exactly those rows that are more than 90 days old
\* with access_count < 2; every other row keeps archived = false.
C13_ArchivesExactly ==
    [][ret'.op = "maintenance" =>
          /\ Ids' = Ids
          /\ \A i \in Ids :
                memories'[i].archived <=>
                   \/ memories[i].archived
                   \/ /\ now - memories[i].timestamp > 90
                      /\ memories[i].access_count < 2]_vars

\* of two records older than 90 days the run archived the one never
\* retrieved and left the one retrieved twice
C13_Witness ==
    /\ ret.op = "maintenance"
    /\ ret.archived = 1
    /\ \E i, j \in Ids :
          /\ memories[i].archived
          /\ memories[i].access_count = 0
          /\ ~memories[j].archived
          /\ memories[j].access_count >= 2
          /\ now - memories[j].timestamp > 90

\* the cost ledger and the progress observer answer every call
Nominal(env) ==
    /\ \A k \in 1..MaxRetries : env.cost[k] = "ok"
    /\ env.observer = [start |-> "ok", update |-> "ok", complete |-> "ok"]

Successes(env) == {k \in 1..MaxRetries : env.responses[k] = "ok"}

MinOf(S) == CHOOSE m \in S : \A x \in S : m <= x

\* C14: a call of embed_with_retry with max_attempts = 3 returns, having
\* issued at most 3 provider requests; with the ledger and the observer
\* answering, it issues requests 1, 2, ... up to the first one that succeeds
\* and none after it, and returns the vector of that request, for every
\* pattern of provider successes and failures.
C14_RetryBounded ==
    (ret.op = "save_embed" /\ ret.env.client) =>
       LET run == ret.run
           n == Len(run.requests)
           S == Successes(ret.env) IN
       /\ n <= 3
       /\ run.outcome \in {"vector", "none", "raised"}
       /\ Nominal(ret.env) =>
             /\ run.outcome \in {"vector", "none"}
             /\ run.requests = [k \in 1..n |-> k]
             /\ n = IF S = {} THEN 3 ELSE MinOf(S)
             /\ S # {} => /\ run.outcome = "vector"
                          /\ run.embedding = VectorOf(MinOf(S))
             /\ S = {} => run.outcome = "none"

\* the provider failed once and then answered: two requests were issued and
\* the vector of the second was stored
C14_Witness ==
    /\ ret.op = "save_embed"
    /\ ret.env.client
    /\ Nominal(ret.env)
    /\ ret.env.responses = <<"fail", "ok", "ok">>
    /\ ret.run.requests = <<1, 2>>
    /\ ret.id \in Ids
    /\ memories[ret.id].embedding = JsonDumps(VectorOf(2))

AllFail(env) == env.client /\ Successes(env) = {}

ObserverAnswers(env) == env.observer = [start |-> "ok", update |-> "ok", complete |-> "ok"]

\* C15: when all 3 provider requests of a save fail (the observer answering
\* its calls), embed_with_retry returns no embedding without raising and the
\* save inserts exactly one record, with embedding null, and returns its id.
C15_SavedWithoutEmbedding ==
    [][(ret'.op = "save_embed" /\ AllFail(ret'.env) /\ ObserverAnswers(ret'.env)) =>
          /\ ret'.raised = FALSE
          /\ ret'.run.outcome = "none"
          /\ Len(ret'.run.requests) = 3
          /\ ret'.id \notin Ids
          /\ Ids' = Ids \cup {ret'.id}
          /\ memories'[ret'.id].embedding = NullText
          /\ \A i \in Ids : memories'[i] = memories[i]]_vars

\* three failed requests, and the record is in the table without embedding
C15_Witness ==
    /\ ret.op = "save_embed"
    /\ AllFail(ret.env)
    /\ ObserverAnswers(ret.env)
    /\ Len(ret.run.requests) = 3
    /\ ret.run.waits = <<1, 2>>
    /\ ret.id \in Ids
    /\ memories[ret.id].embedding = NullText

\* C16: whatever call of the progress observer or of the cost ledger raises
\* during a save, the save does not raise and stores the record, and no
\* provider request is issued after one that succeeded, whose vector is the
\* one stored.
C16_OptionalPathSwallowed ==
    [][(ret'.op = "save_embed" /\ ret'.env.client) =>
          /\ ret'.raised = FALSE
          /\ ret'.id \notin Ids
          /\ Ids' = Ids \cup {ret'.id}
          /\ \A k \in 1..Len(ret'.run.requests) :
                ret'.env.responses[k] = "ok" =>
                   /\ Len(ret'.run.requests) = k
                   /\ memories'[ret'.id].embedding = JsonDumps(VectorOf(k))]_vars

\* the length of a vector whose length is a whole number
Norm(v) == CHOOSE n \in 0..5 : n * n = Dot(v, v)

\* cos(q, v) >= th[1] / th[2], for vectors of non-zero length
CosAtLeast(q, v, th) == Dot(q, v) * th[2] >= th[1] * Norm(q) * Norm(v)

\* cos(q, v) >= cos(q, w)
CosGE(q, v, w) == Dot(q, v) * Norm(w) >= Dot(q, w) * Norm(v)

\* C17: find_similar(user, query, threshold, limit), in either form, returns
\* at most limit records, each of them a record of that user that has an
\* embedding whose cosine with the query is at least the threshold, and
\* returns them in non-increasing order of that cosine.
C17_FindSimilarSound ==
    ret.op = "find_similar" =>
       LET a == ret.args
           rows == ret.rows
           vec(k) == JsonLoads(memories[rows[k].id].embedding) IN
       /\ Len(rows) <= a[4]
       /\ \A k \in 1..Len(rows) :
             /\ rows[k].id \in Ids
             /\ memories[rows[k].id].user_id = a[1]
             /\ memories[rows[k].id].embedding # NullText
             /\ rows[k].embedding = vec(k)
             /\ CosAtLeast(a[2], vec(k), a[3])
       /\ \A i, j \in 1..Len(rows) : i < j => CosGE(a[2], vec(i), vec(j))

\* of three records of the user two were returned, the nearer one first; the
\* third has no embedding or scores below the threshold
C17_Witness ==
    /\ ret.op = "find_similar"
    /\ ret.args[4] = 10
    /\ Len(ret.rows) = 2
    /\ ~CosGE(ret.args[2], ret.rows[2].embedding, ret.rows[1].embedding)
    /\ Cardinality({i \in Ids : memories[i].user_id = ret.args[1]}) = 3

Raised(r) == "raised" \in DOMAIN r

\* what a reader is to report for a JSON column: the value, or nothing when
\* the text does not parse
Reported(t) == IF JsonValid(t) THEN JsonLoads(t) ELSE <<>>

\* the retrieve of ret' returned min(limit, n) of the n matching rows, each
\* with its JSON columns as Reported
ReadsThrough ==
    LET a == ret'.args
        rows == ret'.rows
        V == Visible(a[1], a[3]) IN
    /\ ~Raised(ret')
    /\ Len(rows) = Min(a[2], Cardinality(V))
    /\ \A k \in 1..Len(rows) :
          /\ rows[k].id \in V
          /\ rows[k].embedding = Reported(memories[rows[k].id].embedding)
          /\ rows[k].metadata = Reported(memories[rows[k].id].metadata)

\* C18: when the embedding or metadata column of a stored row holds text
\* that is not valid JSON, a retrieve in either form does not raise and
\* returns the matching rows, that row among them with its unreadable
\* embedding absent and its unreadable metadata empty.
C18_ReadsMalformedRows ==
    [][ret'.op = "retrieve" => ReadsThrough]_vars

\* C19: a save whose user_id or content is empty ends with an error and
\* leaves the table as it was.
C19_EmptySaveRejected ==
    [][(ret'.op = "save" /\ (ret'.user_id = "" \/ ret'.length = 0)) =>
          /\ Raised(ret')
          /\ memories' = memories]_vars

KeepsBasicColumns ==
    /\ Ids' = Ids
    /\ \A i \in Ids : \A c \in BaseColumns : memories'[i][c] = memories[i][c]

C21_BackoffWaits ==
    (ret.op = "save_embed" /\ ret.env.client) =>
       LET run == ret.run IN
       /\ run.waits = [j \in 1..Len(run.waits) |-> 2 ^ (j - 1)]
       /\ Len(run.waits) <= MaxRetries - 1
       /\ run.outcome = "vector" => Len(run.waits) = Len(run.requests) - 1
       /\ run.outcome = "none" => Len(run.waits) = MaxRetries - 1
       /\ Nominal(ret.env) =>
             Len(run.waits) = Cardinality({k \in 1..Len(run.requests) :
                                             ret.env.responses[k] = "fail" /\ k < MaxRetries})

\* two requests failed and the third answered: waits of 1 and 2 time units
C21_Witness ==
    /\ ret.op = "save_embed"
    /\ Nominal(ret.env)
    /\ ret.env.responses = <<"fail", "fail", "ok">>
    /\ ret.run.outcome = "vector"
    /\ ret.run.requests = <<1, 2, 3>>
    /\ ret.run.waits = <<1, 2>>

\* C22: a call of embed_with_retry has appended exactly one Cost Entry when it
\* returns a vector and none otherwise: no attempt that fails appends one.
C22_OneCostEntryPerVector ==
    (ret.op = "save_embed" /\ ret.env.client) =>
       ret.run.entries = IF ret.run.outcome = "vector" THEN 1 ELSE 0

\* C23: compress(days) changes exactly the rows with compressed = false, a
\* timestamp more than `days' old and access_count < 5: each gets compressed =
\* true and as content the first 500 characters of its content followed by
\* '...[compressed]'; every other row and every other column stays as it
\* was, and the returned count is the number of rows changed.
C23_CompressExactly ==
    [][ret'.op = "compress" =>
          LET due == {i \in Ids : /\ memories[i].compressed = FALSE
                                  /\ now - memories[i].timestamp > ret'.days
                                  /\ memories[i].access_count < 5} IN
          /\ Ids' = Ids
          /\ \A i \in due :
                memories'[i] =
                   [memories[i] EXCEPT
                       !.compressed = TRUE,
                       !.content = [k \in 1..(Min(500, Len(memories[i].content)) + Len(Marker)) |->
                                      IF k <= Min(500, Len(memories[i].content))
                                      THEN memories[i].content[k]
                                      ELSE Marker[k - Min(500, Len(memories[i].content))]]]
          /\ \A i \in Ids \ due : memories'[i] = memories[i]
          /\ ret'.count = Cardinality({i \in Ids : memories'[i] # memories[i]})
          /\ ret'.count = Cardinality(due)]_vars

\* a compress changed one row, of 501 characters, and left a row of the same
\* age that had been retrieved 5 times
C23_Witness ==
    /\ ret.op = "compress"
    /\ ret.count = 1
    /\ \E i, j \in Ids :
          /\ memories[i].compressed
          /\ Len(memories[i].content) = CompressPrefixLen + Len(Marker)
          /\ ~memories[j].compressed
          /\ memories[j].access_count = CompressAccessCeiling
          /\ now - memories[j].timestamp > ret.days

\* C27: in every state reached through save, retrieve, find_similar, clear
\* and run_maintenance (whose compress and archive steps see the same clock),
\* every archived record is compressed.
C27_ArchivedAreCompressed ==
    \A i \in Ids : memories[i].archived => memories[i].compressed

\* a record that was retrieved once is archived, and compressed
C27_Witness ==
    \E i \in Ids : /\ memories[i].archived
                   /\ memories[i].compressed
                   /\ memories[i].access_count = 1

\* C28: clear(user), in either form, removes only rows of that user: every
\* row of another user is in the table afterwards with all its columns as
\* they were, and no row appears.
C28_ClearLeavesOtherUsers ==
    [][ret'.op = "clear" =>
          /\ Ids' \subseteq Ids
          /\ \A i \in Ids :
                memories[i].user_id # ret'.user_id =>
                   /\ i \in Ids'
                   /\ memories'[i] = memories[i]]_vars

\* a clear removed the record of its user and left the record of the other
\* user, which had been retrieved before
C28_Witness ==
    /\ ret.op = "clear"
    /\ ret.count = 1
    /\ Cardinality(Ids) = 1
    /\ \E i \in Ids : /\ memories[i].user_id # ret.user_id
                      /\ memories[i].access_count >= 1

\* C29: a non-blocking find_similar changes access_count and last_accessed
\* of the records it returns only: a record of the table that is not in its
\* result keeps both.
C29_FindSimilarTouchesReturnedOnly ==
    [][(ret'.op = "find_similar" /\ ret'.form = "async") =>
          LET got == {ret'.rows[k].id : k \in 1..Len(ret'.rows)} IN
          \A i \in Ids \ got :
             /\ i \in Ids'
             /\ memories'[i].access_count = memories[i].access_count
             /\ memories'[i].last_accessed = memories[i].last_accessed]_vars

\* C24: with the non-blocking retrieves interleaved at their awaits in any
\* order and no clear among them, access_count of every record is the number
\* of completed retrieves that returned it: each of them added exactly 1.
C24_NoIncrementLost ==
    \A i \in Ids :
       memories[i].access_count =
          Cardinality({t \in Done("get") : i \in RowIds(coros[t].rows)})

\* two retrieves read the same record before either of them wrote, and the
\* record counts both
C24_Witness ==
    \E i \in Ids, t, u \in Done("get") :
       /\ t # u
       /\ \E k \in 1..Len(coros[t].rows) :
             coros[t].rows[k].id = i /\ coros[t].rows[k].access_count = 0
       /\ \E k \in 1..Len(coros[u].rows) :
             coros[u].rows[k].id = i /\ coros[u].rows[k].access_count = 0
       /\ memories[i].access_count = 2

\* C26: every result of stats(user) has total = active + archived and
\* compressed <= total, also when saves, clears and maintenance runs are
\* interleaved with the stats call at its awaits.
C26_StatsConsistent ==
    ret.op = "stats" =>
       /\ ret.total = ret.active + ret.archived
       /\ ret.compressed <= ret.total

InitCalls == {t \in DOMAIN coros : coros[t].op = "init"}

\* C25: of the calls started together on a store that is not initialised,
\* none ends with a schema error, and when all of them are through their
\* initialisation every row the table had is as a single initialisation
\* leaves it.
C25_ConcurrentInitSafe ==
    /\ \A t \in InitCalls : coros[t].pc # "failed"
    /\ (InitCalls # {} /\ \A t \in InitCalls : coros[t].pc = "done") =>
          \A i \in DOMAIN coros[1].before :
             /\ i \in Ids
             /\ memories[i] = MigrateRow(coros[1].before[i])

\* C30: when a call of embed_with_retry has returned, the activity it started
\* has status 'complete' in the log of the progress observer, also when
\* another call started its activity in between.
C30_ActivitiesComplete ==
    \A t \in Done("embed") : tracker.log[coros[t].activity].status = "complete"

====
